---- MODULE Spec2Model ----
(***************************************************************************)
(* Pet Adoption System: the Express server (six /api routes) over one      *)
(* shared mysql2 connection and the two-table schema (pets, adoptions).    *)
(*                                                                         *)
(* Node runs one handler or callback at a time; mysql2 keeps the commands  *)
(* issued on a connection in a FIFO queue and runs them one by one.  A     *)
(* step of the model is either the synchronous part of a route handler     *)
(* (Arrive...: validation, then the first db call is queued) or the        *)
(* execution of the command at the head of the queue together with its     *)
(* callback (Exec...: the callback answers or queues the next command).    *)
(*                                                                         *)
(* The connection is one MySQL session: without an open transaction every  *)
(* statement autocommits; START TRANSACTION implicitly commits an open     *)
(* transaction; statements of every request issued while a transaction is  *)
(* open belong to it.  "session" is what statements on the connection see  *)
(* (committed data plus the open transaction's writes), "committed" is the *)
(* durable data.  A failed statement changes nothing and leaves the        *)
(* transaction state as it was.                                            *)
(***************************************************************************)
EXTENDS Integers, Sequences, FiniteSets, TLC

\* ------------------------------------------------------------------ bounds
NumSlots == 2          \* requests that can be in flight together
MaxPets == 2           \* cap on generated pet ids
MaxAdoptions == 2      \* cap on generated adoption ids
MaxTime == 1           \* cap on the clock behind NOW()
NumSamplePets == 1     \* sample pets present after the schema script

Slots == 1..NumSlots

\* ----------------------------------------------------------- JS values
\* A JSON/JS value: undefined, null, a string (tuple of characters) or a
\* number (kept as the characters of String(n), which is what parseInt sees).
Undef == [k |-> "undef", s |-> <<>>]
Null == [k |-> "null", s |-> <<>>]
Str(cs) == [k |-> "str", s |-> cs]
Num(cs) == [k |-> "num", s |-> cs]

\* !v of JavaScript
Falsy(v) ==
  \/ v.k \in {"undef", "null"}
  \/ v.k = "str" /\ v.s = <<>>
  \/ v.k = "num" /\ v.s \in {<<"0">>, <<"-", "0">>}

Digits == {"0", "1", "2", "3", "4", "5", "6", "7", "8", "9"}
DigitVal(c) ==
  CASE c = "0" -> 0 [] c = "1" -> 1 [] c = "2" -> 2 [] c = "3" -> 3
    [] c = "4" -> 4 [] c = "5" -> 5 [] c = "6" -> 6 [] c = "7" -> 7
    [] c = "8" -> 8 [] c = "9" -> 9

RECURSIVE SkipWS(_)
SkipWS(cs) == IF cs # <<>> /\ Head(cs) = " " THEN SkipWS(Tail(cs)) ELSE cs

RECURSIVE DigitPrefix(_)
DigitPrefix(cs) ==
  IF cs # <<>> /\ Head(cs) \in Digits
  THEN <<Head(cs)>> \o DigitPrefix(Tail(cs))
  ELSE <<>>

RECURSIVE DecVal(_, _)
DecVal(ds, acc) ==
  IF ds = <<>> THEN acc ELSE DecVal(Tail(ds), 10 * acc + DigitVal(Head(ds)))

Drop(cs, n) == SubSeq(cs, n + 1, Len(cs))

\* parseInt(v, 10): leading white space, an optional sign, then the longest
\* run of digits; NaN when there is no digit.  What follows the digits is
\* ignored.
ParseInt(v) ==
  LET t == SkipWS(v.s)
      neg == t # <<>> /\ Head(t) = "-"
      u == IF t # <<>> /\ Head(t) \in {"-", "+"} THEN Tail(t) ELSE t
      d == DigitPrefix(u)
  IN [nan |-> d = <<>> \/ v.k \in {"undef", "null"},
      val |-> IF neg THEN 0 - DecVal(d, 0) ELSE DecVal(d, 0)]

\* MySQL's conversion of a quoted string to a number for `id = '...'`:
\* the leading numeric prefix (sign, digits, fraction), 0 when there is none.
\* frac is TRUE when the fraction is not zero, so that no INT id equals it.
SqlNumber(cs) ==
  LET t == SkipWS(cs)
      neg == t # <<>> /\ Head(t) = "-"
      u == IF t # <<>> /\ Head(t) \in {"-", "+"} THEN Tail(t) ELSE t
      d == DigitPrefix(u)
      r == Drop(u, Len(d))
      f == IF r # <<>> /\ Head(r) = "." THEN DigitPrefix(Tail(r)) ELSE <<>>
  IN [val |-> IF neg THEN 0 - DecVal(d, 0) ELSE DecVal(d, 0),
      frac |-> DecVal(f, 0) # 0]

\* WHERE id = ? with a string parameter
SqlIdEquals(id, cs) == ~SqlNumber(cs).frac /\ SqlNumber(cs).val = id

\* ------------------------------------------------------------- schema
\* A pets row.  "by" is not a column: it records which statement set the
\* status to 'adopted' (the adoption id of the adopt request, 0 for
\* adopt-pet, -1 while the status is the insert default).
PetRow(id, name, breed, age, description, image_url) ==
  [id |-> id, name |-> name, breed |-> breed, age |-> age,
   description |-> description, image_url |-> image_url,
   status |-> "available", by |-> -1]

SamplePet(i) ==
  PetRow(i, Str(<<"M", "a", "x">>), Str(<<"L", "a", "b">>), 3, Str(<<"d">>), Null)

AdoptionRow(id, pet_id, adopter_name, email, phone, address, date) ==
  [id |-> id, pet_id |-> pet_id, adopter_name |-> adopter_name,
   email |-> email, phone |-> phone, address |-> address,
   adoption_date |-> date]

\* FOREIGN KEY (pet_id) REFERENCES pets(id)
ForeignKeyOk(db, pet_id) == \E p \in db.pets : p.id = pet_id

VARIABLES
  running,          \* the server process is alive
  dbDefined,        \* the `db` handle was created (line 32 did not throw)
  session,          \* tables as seen by statements on the connection
  committed,        \* durable tables
  inTx,             \* a transaction is open on the connection
  nextPetId,        \* AUTO_INCREMENT of pets
  nextAdoptionId,   \* AUTO_INCREMENT of adoptions
  now,              \* the clock read by NOW()
  req,              \* the requests in flight or just answered, by slot
  queue,            \* the connection's command queue (slots, FIFO)
  last              \* the slot whose handler or callback ran last (0: none)

vars == <<running, dbDefined, session, committed, inTx, nextPetId, nextAdoptionId,
          now, req, queue, last>>

store == <<session, committed, inTx, nextPetId, nextAdoptionId>>

\* ------------------------------------------------------------ requests
NoResp == [status |-> 0, error |-> "", rows |-> <<>>, id |-> 0, leak |-> FALSE]

\* res.status(code).json({ error: msg })
ErrResp(code, msg) ==
  [status |-> code, error |-> msg, rows |-> <<>>, id |-> 0, leak |-> FALSE]

\* res.json(results) and res.json({ success: true, ..._id: id })
RowsResp(rows) ==
  [status |-> 200, error |-> "", rows |-> rows, id |-> 0, leak |-> FALSE]
IdResp(id) ==
  [status |-> 200, error |-> "", rows |-> <<>>, id |-> id, leak |-> FALSE]

\* The error-handling middleware: a handler that throws (db is undefined)
\* is answered 500 with the exception's message in the body.
MiddlewareResp ==
  [status |-> 500, error |-> "Internal server error", rows |-> <<>>,
   id |-> 0, leak |-> TRUE]

EmptyBody ==
  [id |-> Undef, pet_id |-> Undef, adopter_name |-> Undef, email |-> Undef,
   phone |-> Undef, address |-> Undef, name |-> Undef, breed |-> Undef,
   age |-> Undef, description |-> Undef, image_url |-> Undef]

\* A request: its route, its input, the db command it has queued (pc), the
\* parsed pet id, the insertId of its INSERT, its response, whether it has
\* issued a db call (touched), whether a callback of it got an err, and
\* whether the pet it adopts was stored as 'adopted' when it arrived
\* (readopt), and how many responses were written for it (sent).
IdleReq ==
  [kind |-> "none", body |-> EmptyBody, pc |-> "idle", petIdNum |-> 0,
   insertId |-> 0, resp |-> NoResp, touched |-> FALSE, err |-> FALSE,
   readopt |-> FALSE, sent |-> 0]

NewReq(kind, body) == [IdleReq EXCEPT !.kind = kind, !.body = body]

\* a request can arrive on a slot while the process is alive
Free(r) == running /\ req[r].pc \in {"idle", "done"}

\* a response that was sent has left the server: its slot is free again
Sent == [s \in Slots |-> IF req[s].pc = "done" THEN IdleReq ELSE req[s]]

\* the request answers: res.json / res.status().json
Answer(rq, resp) ==
  [rq EXCEPT !.pc = "done", !.resp = resp, !.sent = @ + 1]

\* the callback was called with an err
Failed(rq) == [rq EXCEPT !.err = TRUE]

\* the request issues a db call: the command joins the connection's queue
Issue(rq, pc) == [rq EXCEPT !.pc = pc, !.touched = TRUE]

\* (the callback answers at once and then rolls back as well)
RespondAndRollback(rq, msg) ==
  Issue([Failed(rq) EXCEPT !.resp = ErrResp(500, msg), !.sent = @ + 1],
        "rollback")

\* A callback of the adopt chain got an err: it issues db.rollback, whose
\* callback will answer 500 with msg; nothing is answered before that.
RollbackWith(rq, msg) ==
  Issue([Failed(rq) EXCEPT !.resp = ErrResp(500, msg)], "rollback")

\* (an exception nothing catches ends the process, the request unanswered)
HandlerThrowsUncaught(rq) == [rq |-> IdleReq, running |-> FALSE]

\* The route handler throws while it runs (db.query on an undefined db):
\* Express catches what a handler throws synchronously and passes it to the
\* error-handling middleware, which answers; the process goes on.
HandlerThrows(rq) == [rq |-> Answer(rq, MiddlewareResp), running |-> TRUE]

\* --------------------------------------------------------------- inputs
JaneContact(b) ==
  [b EXCEPT !.adopter_name = Str(<<"J">>), !.email = Str(<<"j", "@">>),
            !.phone = Str(<<"5">>), !.address = Str(<<"1", " ", "M">>)]
KimContact(b) ==
  [b EXCEPT !.adopter_name = Str(<<"K">>), !.email = Str(<<"k", "@">>),
            !.phone = Str(<<"7">>), !.address = Str(<<"2", " ", "M">>)]

\* pet ids as they can arrive in a JSON body or a URL segment; 9 is an id
\* no pet ever has
PetIdInputs ==
  {Undef, Null, Str(<<>>), Num(<<"0">>), Str(<<"0">>), Str(<<"-", "1">>),
   Str(<<"a">>), Num(<<"1">>), Str(<<"1">>), Str(<<"2">>), Num(<<"9">>),
   Str(<<"1", "a">>), Num(<<"1", ".", "5">>)}

UrlIdInputs ==
  {<<"1">>, <<"2">>, <<"9">>, <<"0">>, <<"-", "1">>, <<"a">>,
   <<"1", "a">>, <<"1", ".", "5">>, <<"1", ".", "0">>}

AdoptBodies ==
  {JaneContact([EmptyBody EXCEPT !.pet_id = v]) : v \in PetIdInputs}
  \cup {KimContact([EmptyBody EXCEPT !.pet_id = Num(<<"1">>)])}
  \cup {[JaneContact([EmptyBody EXCEPT !.pet_id = Num(<<"1">>)])
           EXCEPT !.adopter_name = Str(<<>>)],
        [JaneContact([EmptyBody EXCEPT !.pet_id = Num(<<"1">>)])
           EXCEPT !.email = Undef],
        [JaneContact([EmptyBody EXCEPT !.pet_id = Num(<<"1">>)])
           EXCEPT !.phone = Null],
        [JaneContact([EmptyBody EXCEPT !.pet_id = Num(<<"1">>)])
           EXCEPT !.address = Str(<<>>)]}

AdoptPetBodies == {[EmptyBody EXCEPT !.pet_id = v] : v \in PetIdInputs}

AgeInputs ==
  {Undef, Null, Str(<<>>), Str(<<"a">>), Num(<<"0">>), Num(<<"2">>),
   Str(<<"2">>), Num(<<"-", "1">>), Str(<<"2", "a">>),
   Num(<<"-", "0", ".", "5">>), Num(<<"2", ".", "5">>)}

LunaBody ==
  [EmptyBody EXCEPT !.name = Str(<<"L", "u">>), !.breed = Str(<<"S">>),
                    !.age = Num(<<"2">>)]

AddPetBodies ==
  {[LunaBody EXCEPT !.age = a] : a \in AgeInputs}
  \cup {[LunaBody EXCEPT !.name = Str(<<>>)],
        [LunaBody EXCEPT !.name = Undef],
        [LunaBody EXCEPT !.breed = Str(<<>>)],
        [LunaBody EXCEPT !.description = Str(<<"c", "a", "t">>),
                         !.image_url = Str(<<"u">>)],
        [LunaBody EXCEPT !.description = Str(<<>>),
                         !.image_url = Str(<<>>)]}

\* ---------------------------------------------------------------- Init
EmptyDb == [pets |-> {}, adoptions |-> {}]

Init ==
  /\ running = TRUE
  /\ dbDefined \in BOOLEAN
  /\ session = [pets |-> {SamplePet(i) : i \in 1..NumSamplePets},
                adoptions |-> {}]
  /\ committed = session
  /\ inTx = FALSE
  /\ nextPetId = NumSamplePets + 1
  /\ nextAdoptionId = 1
  /\ now = 0
  /\ req = [r \in Slots |-> IdleReq]
  /\ queue = <<>>
  /\ last = 0

\* ------------------------------------------------- the MySQL connection
\* a data-changing statement: autocommitted unless a transaction is open
Write(db) ==
  /\ session' = db
  /\ committed' = IF inTx THEN committed ELSE db
  /\ inTx' = inTx

\* START TRANSACTION: commits the open transaction, if any, and opens one
BeginTransaction ==
  /\ committed' = session
  /\ session' = session
  /\ inTx' = TRUE

Commit ==
  /\ committed' = session
  /\ session' = session
  /\ inTx' = FALSE

Rollback ==
  /\ session' = committed
  /\ committed' = committed
  /\ inTx' = FALSE

\* the callback of the head command has run: the command leaves the queue
\* and, when the callback issued another db call, that one joins the end
Dequeue(r, again) ==
  queue' = IF again THEN Append(Tail(queue), r) ELSE Tail(queue)

AtHead(r, kind, pc) ==
  /\ queue # <<>>
  /\ Head(queue) = r
  /\ req[r].kind = kind
  /\ req[r].pc = pc

\* ---------------------------------------------------------- the queries
\* a set of rows as the sequence in ascending id order
RECURSIVE OrderById(_)
OrderById(rows) ==
  IF rows = {} THEN <<>>
  ELSE LET m == CHOOSE x \in rows : \A y \in rows : x.id <= y.id
       IN <<m>> \o OrderById(rows \ {m})

\* (the query without its WHERE clause)
SelectAvailableNoWhere(db) == OrderById(db.pets)

\* SELECT * FROM pets WHERE status = 'available' ORDER BY id ASC
SelectAvailable(db) == OrderById({p \in db.pets : p.status = "available"})

\* SELECT * FROM pets WHERE id = ?   (the parameter is the URL segment)
SelectPetById(db, cs) == OrderById({p \in db.pets : SqlIdEquals(p.id, cs)})

\* (the statement without its WHERE clause)
UpdatePetStatusNoWhere(db, id, by) ==
  [db EXCEPT !.pets =
     {[p EXCEPT !.status = "adopted",
                !.by = IF p.status = "adopted" THEN p.by ELSE by] :
        p \in db.pets}]

\* (the update sets another column of the row too)
UpdatePetStatusAndDescription(db, id, by) ==
  [db EXCEPT !.pets =
     {IF p.id = id
      THEN [p EXCEPT !.status = "adopted", !.description = Null,
                     !.by = IF p.status = "adopted" THEN p.by ELSE by]
      ELSE p : p \in db.pets}]

\* UPDATE pets SET status = 'adopted' WHERE id = ?
UpdatePetStatus(db, id, by) ==
  [db EXCEPT !.pets =
     {IF p.id = id
      THEN [p EXCEPT !.status = "adopted",
                     !.by = IF p.status = "adopted" THEN p.by ELSE by]
      ELSE p : p \in db.pets}]

\* affectedRows of that UPDATE (the driver reports the rows matched)
AffectedRows(db, id) == Cardinality({p \in db.pets : p.id = id})

\* the rows of adoptions a INNER JOIN pets p ON a.pet_id = p.id
JoinRows(db) ==
  {[adoption_id |-> a.id, adopter_name |-> a.adopter_name,
    email |-> a.email, phone |-> a.phone, address |-> a.address,
    adoption_date |-> a.adoption_date, pet_id |-> p.id, pet_name |-> p.name,
    breed |-> p.breed, age |-> p.age, description |-> p.description] :
      <<a, p>> \in {x \in db.adoptions \X db.pets : x[1].pet_id = x[2].id}}

\* (the rows in ascending order of date)
SelectAdoptedAscending(db) ==
  LET J == JoinRows(db)
      n == Cardinality(J)
  IN {f \in [1..n -> J] :
        /\ \A i, j \in 1..n : i # j => f[i] # f[j]
        /\ \A i, j \in 1..n : i < j => f[i].adoption_date <= f[j].adoption_date}

\* ORDER BY a.adoption_date DESC: every order of the rows with
\* non-increasing dates (rows of equal date come in any order)
SelectAdopted(db) ==
  LET J == JoinRows(db)
      n == Cardinality(J)
  IN {f \in [1..n -> J] :
        /\ \A i, j \in 1..n : i # j => f[i] # f[j]
        /\ \A i, j \in 1..n : i < j => f[i].adoption_date >= f[j].adoption_date}

\* ------------------------------------------------------------ GET /api/pets
ArriveListAvailable(r) ==
  /\ Free(r)
  /\ IF ~dbDefined
     THEN /\ req' = [Sent EXCEPT ![r] = Answer(NewReq("listAvailable", EmptyBody),
                       ErrResp(500, "Database connection not available"))]
          /\ queue' = queue
     ELSE /\ req' = [Sent EXCEPT ![r] = Issue(NewReq("listAvailable", EmptyBody), "query")]
          /\ queue' = Append(queue, r)
  /\ last' = r
  /\ UNCHANGED <<running, dbDefined, store, now>>

ExecListAvailable(r) ==
  /\ AtHead(r, "listAvailable", "query")
  /\ \E ok \in BOOLEAN :
       req' = [Sent EXCEPT ![r] =
                 IF ok THEN Answer(@, RowsResp(SelectAvailable(session)))
                 ELSE Answer(Failed(@), ErrResp(500, "Failed to fetch pets"))]
  /\ Dequeue(r, FALSE)
  /\ last' = r
  /\ UNCHANGED <<running, dbDefined, store, now>>

\* -------------------------------------------------------- GET /api/pets/:id
ArriveGetById(r, ids) ==
  /\ Free(r)
  /\ \E cs \in ids :
       LET rq == NewReq("getById", [EmptyBody EXCEPT !.id = Str(cs)])
       IN IF ~dbDefined
          THEN /\ req' = [Sent EXCEPT ![r] = HandlerThrows(rq).rq]
               /\ queue' = queue
               /\ running' = HandlerThrows(rq).running
          ELSE /\ req' = [Sent EXCEPT ![r] = Issue(rq, "query")]
               /\ queue' = Append(queue, r)
               /\ running' = running
  /\ last' = r
  /\ UNCHANGED <<dbDefined, store, now>>

ExecGetById(r) ==
  /\ AtHead(r, "getById", "query")
  /\ \E ok \in BOOLEAN :
       LET results == SelectPetById(session, req[r].body.id.s)
       IN req' = [Sent EXCEPT ![r] =
                    IF ~ok
                    THEN Answer(Failed(@), ErrResp(500, "Failed to fetch pet details"))
                    ELSE IF Len(results) = 0
                    THEN Answer(@, ErrResp(404, "Pet not found"))
                    ELSE Answer(@, RowsResp(<<results[1]>>))]
  /\ Dequeue(r, FALSE)
  /\ last' = r
  /\ UNCHANGED <<running, dbDefined, store, now>>

\* ------------------------------------------------------- POST /api/add-pet
\* description || null
OrNull(v) == IF Falsy(v) THEN Null ELSE v

PendingPetInserts ==
  Cardinality({s \in Slots : req[s].kind = "addPet" /\ req[s].pc = "query"})

ArriveAddPet(r, bodies) ==
  /\ Free(r)
  /\ \E b \in bodies :
       LET rq == NewReq("addPet", b)
           ageNum == ParseInt(b.age)
       IN IF ~dbDefined
          THEN /\ req' = [Sent EXCEPT ![r] = Answer(rq,
                            ErrResp(500, "Database connection not available"))]
               /\ queue' = queue
          ELSE IF Falsy(b.name) \/ Falsy(b.breed) \/ b.age \in {Undef, Null}
          THEN /\ req' = [Sent EXCEPT ![r] = Answer(rq,
                            ErrResp(400, "Name, breed, and age are required"))]
               /\ queue' = queue
          ELSE IF ageNum.nan \/ ageNum.val < 0
          THEN /\ req' = [Sent EXCEPT ![r] = Answer(rq,
                            ErrResp(400, "Age must be a valid non-negative number"))]
               /\ queue' = queue
          ELSE /\ nextPetId + PendingPetInserts <= MaxPets
               /\ req' = [Sent EXCEPT ![r] = Issue(rq, "query")]
               /\ queue' = Append(queue, r)
  /\ last' = r
  /\ UNCHANGED <<running, dbDefined, store, now>>

ExecAddPet(r) ==
  /\ AtHead(r, "addPet", "query")
  /\ \E ok \in BOOLEAN :
       LET b == req[r].body
           row == PetRow(nextPetId, b.name, b.breed, ParseInt(b.age).val,
                         OrNull(b.description), OrNull(b.image_url))
       IN IF ok
          THEN /\ Write([session EXCEPT !.pets = @ \cup {row}])
               /\ nextPetId' = nextPetId + 1
               /\ req' = [Sent EXCEPT ![r] =
                            Answer([@ EXCEPT !.insertId = nextPetId],
                                   IdResp(nextPetId))]
          ELSE /\ UNCHANGED <<session, committed, inTx, nextPetId>>
               /\ req' = [Sent EXCEPT ![r] =
                            Answer(Failed(@), ErrResp(500, "Failed to add pet"))]
  /\ Dequeue(r, FALSE)
  /\ last' = r
  /\ UNCHANGED <<running, dbDefined, nextAdoptionId, now>>

\* --------------------------------------------------------- POST /api/adopt
PendingAdoptionInserts ==
  Cardinality({s \in Slots : req[s].kind = "adopt" /\ req[s].pc \in {"begin", "insert"}})

ArriveAdopt(r, bodies) ==
  /\ Free(r)
  /\ \E b \in bodies :
       LET rq == NewReq("adopt", b)
           petIdNum == ParseInt(b.pet_id)
       IN IF Falsy(b.pet_id) \/ Falsy(b.adopter_name) \/ Falsy(b.email)
             \/ Falsy(b.phone) \/ Falsy(b.address)
          THEN /\ req' = [Sent EXCEPT ![r] = Answer(rq,
                            ErrResp(400, "All fields are required"))]
               /\ queue' = queue
               /\ running' = running
          ELSE IF petIdNum.nan \/ petIdNum.val <= 0
          THEN /\ req' = [Sent EXCEPT ![r] = Answer(rq, ErrResp(400, "Invalid pet ID"))]
               /\ queue' = queue
               /\ running' = running
          ELSE IF ~dbDefined
          THEN /\ req' = [Sent EXCEPT ![r] = HandlerThrows(rq).rq]
               /\ queue' = queue
               /\ running' = HandlerThrows(rq).running
          ELSE /\ nextAdoptionId + PendingAdoptionInserts <= MaxAdoptions
               /\ req' = [Sent EXCEPT ![r] =
                            Issue([rq EXCEPT !.petIdNum = petIdNum.val,
                                             !.readopt = \E p \in committed.pets :
                                                /\ p.id = petIdNum.val
                                                /\ p.status = "adopted"],
                                  "begin")]
               /\ queue' = Append(queue, r)
               /\ running' = running
  /\ last' = r
  /\ UNCHANGED <<dbDefined, store, now>>

\* db.beginTransaction and its callback, which issues the INSERT
ExecBegin(r) ==
  /\ AtHead(r, "adopt", "begin")
  /\ \E ok \in BOOLEAN :
       IF ok
       THEN /\ BeginTransaction
            /\ req' = [Sent EXCEPT ![r] = Issue(@, "insert")]
            /\ Dequeue(r, TRUE)
       ELSE /\ UNCHANGED <<session, committed, inTx>>
            /\ req' = [Sent EXCEPT ![r] = Answer(Failed(@),
                         ErrResp(500, "Failed to process adoption"))]
            /\ Dequeue(r, FALSE)
  /\ last' = r
  /\ UNCHANGED <<running, dbDefined, nextPetId, nextAdoptionId, now>>

\* INSERT INTO adoptions ... NOW() and its callback, which issues the UPDATE
\* or, on an error, the rollback
ExecAdoptInsert(r) ==
  /\ AtHead(r, "adopt", "insert")
  /\ \E ok \in BOOLEAN :
       LET b == req[r].body
           row == AdoptionRow(nextAdoptionId, req[r].petIdNum, b.adopter_name,
                              b.email, b.phone, b.address, now)
       IN IF ok /\ ForeignKeyOk(session, req[r].petIdNum)
          THEN /\ Write([session EXCEPT !.adoptions = @ \cup {row}])
               /\ nextAdoptionId' = nextAdoptionId + 1
               /\ req' = [Sent EXCEPT ![r] =
                            Issue([@ EXCEPT !.insertId = nextAdoptionId], "update")]
          ELSE /\ UNCHANGED <<session, committed, inTx, nextAdoptionId>>
               /\ req' = [Sent EXCEPT ![r] =
                            RollbackWith(@, "Failed to process adoption")]
  /\ Dequeue(r, TRUE)
  /\ last' = r
  /\ UNCHANGED <<running, dbDefined, nextPetId, now>>

\* UPDATE pets SET status = 'adopted' and its callback, which issues the
\* commit or, on an error, the rollback
ExecAdoptUpdate(r) ==
  /\ AtHead(r, "adopt", "update")
  /\ \E ok \in BOOLEAN :
       IF ok
       THEN /\ Write(UpdatePetStatus(session, req[r].petIdNum, req[r].insertId))
            /\ req' = [Sent EXCEPT ![r] = Issue(@, "commit")]
       ELSE /\ UNCHANGED <<session, committed, inTx>>
            /\ req' = [Sent EXCEPT ![r] =
                         RollbackWith(@, "Failed to update pet status")]
  /\ Dequeue(r, TRUE)
  /\ last' = r
  /\ UNCHANGED <<running, dbDefined, nextPetId, nextAdoptionId, now>>

\* db.commit and its callback, which answers or, on an error, rolls back
ExecCommit(r) ==
  /\ AtHead(r, "adopt", "commit")
  /\ \E ok \in BOOLEAN :
       IF ok
       THEN /\ Commit
            /\ req' = [Sent EXCEPT ![r] = Answer(@, IdResp(req[r].insertId))]
            /\ Dequeue(r, FALSE)
       ELSE /\ UNCHANGED <<session, committed, inTx>>
            /\ req' = [Sent EXCEPT ![r] =
                         RollbackWith(@, "Failed to complete adoption")]
            /\ Dequeue(r, TRUE)
  /\ last' = r
  /\ UNCHANGED <<running, dbDefined, nextPetId, nextAdoptionId, now>>

\* db.rollback and its callback, which answers 500 whatever the rollback did
ExecRollback(r) ==
  /\ AtHead(r, "adopt", "rollback")
  /\ Rollback
  /\ req' = [Sent EXCEPT ![r] = Answer(@, req[r].resp)]
  /\ Dequeue(r, FALSE)
  /\ last' = r
  /\ UNCHANGED <<running, dbDefined, nextPetId, nextAdoptionId, now>>

\* ----------------------------------------------------- POST /api/adopt-pet
ArriveAdoptPet(r, bodies) ==
  /\ Free(r)
  /\ \E b \in bodies :
       LET rq == NewReq("adoptPet", b)
           petIdNum == ParseInt(b.pet_id)
       IN IF Falsy(b.pet_id)
          THEN /\ req' = [Sent EXCEPT ![r] = Answer(rq, ErrResp(400, "Pet ID is required"))]
               /\ queue' = queue
               /\ running' = running
          ELSE IF petIdNum.nan \/ petIdNum.val <= 0
          THEN /\ req' = [Sent EXCEPT ![r] = Answer(rq, ErrResp(400, "Invalid pet ID"))]
               /\ queue' = queue
               /\ running' = running
          ELSE IF ~dbDefined
          THEN /\ req' = [Sent EXCEPT ![r] = HandlerThrows(rq).rq]
               /\ queue' = queue
               /\ running' = HandlerThrows(rq).running
          ELSE /\ req' = [Sent EXCEPT ![r] =
                            Issue([rq EXCEPT !.petIdNum = petIdNum.val], "query")]
               /\ queue' = Append(queue, r)
               /\ running' = running
  /\ last' = r
  /\ UNCHANGED <<dbDefined, store, now>>

ExecAdoptPet(r) ==
  /\ AtHead(r, "adoptPet", "query")
  /\ \E ok \in BOOLEAN :
       IF ok
       THEN /\ Write(UpdatePetStatus(session, req[r].petIdNum, 0))
            /\ req' = [Sent EXCEPT ![r] = Answer(@,
                         IF AffectedRows(session, req[r].petIdNum) = 0
                         THEN ErrResp(404, "Pet not found")
                         ELSE IdResp(0))]
       ELSE /\ UNCHANGED <<session, committed, inTx>>
            /\ req' = [Sent EXCEPT ![r] = Answer(Failed(@),
                         ErrResp(500, "Failed to update pet status"))]
  /\ Dequeue(r, FALSE)
  /\ last' = r
  /\ UNCHANGED <<running, dbDefined, nextPetId, nextAdoptionId, now>>

\* -------------------------------------------------------- GET /api/adopted
ArriveListAdopted(r) ==
  /\ Free(r)
  /\ IF ~dbDefined
     THEN /\ req' = [Sent EXCEPT ![r] = Answer(NewReq("listAdopted", EmptyBody),
                       ErrResp(500, "Database connection not available"))]
          /\ queue' = queue
     ELSE /\ req' = [Sent EXCEPT ![r] = Issue(NewReq("listAdopted", EmptyBody), "query")]
          /\ queue' = Append(queue, r)
  /\ last' = r
  /\ UNCHANGED <<running, dbDefined, store, now>>

\* on an error the body carries details: err.message
ExecListAdopted(r) ==
  /\ AtHead(r, "listAdopted", "query")
  /\ \/ \E rows \in SelectAdopted(session) :
          req' = [Sent EXCEPT ![r] = Answer(@, RowsResp(rows))]
     \/ req' = [Sent EXCEPT ![r] = Answer(Failed(@),
                  [ErrResp(500, "Failed to fetch adopted pets") EXCEPT !.leak = TRUE])]
  /\ Dequeue(r, FALSE)
  /\ last' = r
  /\ UNCHANGED <<running, dbDefined, store, now>>

\* ------------------------------------------------------------- the clock
Tick ==
  /\ now < MaxTime
  /\ now' = now + 1
  /\ req' = Sent
  /\ last' = 0
  /\ UNCHANGED <<running, dbDefined, store, queue>>

\* The requests of the concurrent specification: pet 1 exists from the
\* start, pet 2 only once an add-pet request has created it.
CoreUrlIds == {<<"1">>, <<"2">>}
CoreAddPetBodies == {LunaBody}
CoreAdoptBodies ==
  {JaneContact([EmptyBody EXCEPT !.pet_id = Num(<<"1">>)]),
   KimContact([EmptyBody EXCEPT !.pet_id = Str(<<"2">>)])}
CoreAdoptPetBodies ==
  {[EmptyBody EXCEPT !.pet_id = v] : v \in {Num(<<"1">>), Str(<<"2">>)}}

Next ==
  \/ Tick
  \/ \E r \in Slots :
       \/ ArriveListAvailable(r) \/ ExecListAvailable(r)
       \/ ArriveGetById(r, CoreUrlIds) \/ ExecGetById(r)
       \/ ArriveAddPet(r, CoreAddPetBodies) \/ ExecAddPet(r)
       \/ ArriveAdopt(r, CoreAdoptBodies) \/ ExecBegin(r) \/ ExecAdoptInsert(r)
       \/ ExecAdoptUpdate(r) \/ ExecCommit(r) \/ ExecRollback(r)
       \/ ArriveAdoptPet(r, CoreAdoptPetBodies) \/ ExecAdoptPet(r)
       \/ ArriveListAdopted(r) \/ ExecListAdopted(r)

Spec == Init /\ [][Next]_vars

\* One request at a time, over the whole range of inputs: what each handler
\* does with each shape of input.
NextInputs ==
  \/ Tick
  \/ \E r \in {1} :
       \/ ArriveListAvailable(r) \/ ExecListAvailable(r)
       \/ ArriveGetById(r, UrlIdInputs) \/ ExecGetById(r)
       \/ ArriveAddPet(r, AddPetBodies) \/ ExecAddPet(r)
       \/ ArriveAdopt(r, AdoptBodies) \/ ExecBegin(r) \/ ExecAdoptInsert(r)
       \/ ExecAdoptUpdate(r) \/ ExecCommit(r) \/ ExecRollback(r)
       \/ ArriveAdoptPet(r, AdoptPetBodies) \/ ExecAdoptPet(r)
       \/ ArriveListAdopted(r) \/ ExecListAdopted(r)

SpecInputs == Init /\ [][NextInputs]_vars

\* ================================================================ claims
Answered(r, kind) == req[r].kind = kind /\ req[r].pc = "done"

\* the vocabulary of the claims about inputs
Missing(v) == v.k \in {"undef", "null"} \/ v.s = <<>>
AllDigits(cs) == cs # <<>> /\ \A i \in 1..Len(cs) : cs[i] \in Digits
IsPositiveInteger(v) ==
  /\ v.k \in {"str", "num"}
  /\ AllDigits(v.s)
  /\ DecVal(v.s, 0) > 0
\* a decimal numeral: optional sign, digits, optional fraction
IsNumeric(v) ==
  /\ v.k \in {"str", "num"}
  /\ LET u == IF v.s # <<>> /\ Head(v.s) \in {"-", "+"} THEN Tail(v.s) ELSE v.s
         d == DigitPrefix(u)
         r == Drop(u, Len(d))
     IN /\ d # <<>>
        /\ r = <<>> \/ (Head(r) = "." /\ AllDigits(Tail(r)))
IsNegative(v) ==
  /\ IsNumeric(v)
  /\ Head(v.s) = "-"
  /\ \E i \in 1..Len(v.s) : v.s[i] \in Digits \ {"0"}

PetIn(db, id) == {p \in db.pets : p.id = id}
AdoptedIn(db, id) == \E p \in db.pets : p.id = id /\ p.status = "adopted"

\* C1: an adopt request that passed validation and is answered 500 leaves no
\* Adoption row of its own visible and no pet status changed by it.
C1_FailedAdoptLeavesNoTrace ==
  \A r \in Slots :
    (Answered(r, "adopt") /\ req[r].touched /\ req[r].resp.status # 200) =>
      /\ req[r].resp.status = 500
      /\ req[r].insertId # 0 =>
           /\ \A a \in session.adoptions \cup committed.adoptions :
                a.id # req[r].insertId
           /\ \A p \in session.pets \cup committed.pets :
                p.by # req[r].insertId

\* C2: every Adoption row of the durable store references exactly one pet,
\* and that pet's status is 'adopted'.
C2_AdoptionImpliesAdoptedPet ==
  \A a \in committed.adoptions :
    /\ Cardinality(PetIn(committed, a.pet_id)) = 1
    /\ AdoptedIn(committed, a.pet_id)

\* C3: a read request is never answered with data of a transaction that is
\* neither committed nor rolled back: every row it returns is a committed row.
C3_ReadsSeeOnlyCommitted ==
  \A r \in Slots :
    /\ (Answered(r, "listAdopted") /\ req[r].resp.status = 200) =>
         \A i \in 1..Len(req[r].resp.rows) :
           req[r].resp.rows[i] \in JoinRows(committed)
    /\ ((Answered(r, "listAvailable") \/ Answered(r, "getById"))
          /\ req[r].resp.status = 200) =>
         \A i \in 1..Len(req[r].resp.rows) :
           req[r].resp.rows[i] \in committed.pets

\* C4: when an adopt request is answered with success, the store holds
\* exactly one Adoption row with the returned adoption_id, that row carries
\* the submitted pet id and contact fields, and the pet's status is 'adopted'.
C4_SuccessfulAdoptIsStored ==
  \A r \in Slots :
    (Answered(r, "adopt") /\ req[r].resp.status = 200) =>
      /\ {a \in committed.adoptions : a.id = req[r].resp.id} =
           {a \in committed.adoptions :
              /\ a.id = req[r].insertId
              /\ a.pet_id = req[r].petIdNum
              /\ a.adopter_name = req[r].body.adopter_name
              /\ a.email = req[r].body.email
              /\ a.phone = req[r].body.phone
              /\ a.address = req[r].body.address}
      /\ Cardinality({a \in committed.adoptions : a.id = req[r].resp.id}) = 1
      /\ AdoptedIn(committed, req[r].petIdNum)

\* C5: a pet's durable status never goes back from 'adopted', and it becomes
\* 'adopted' only by the UPDATE of an adopt-pet request for that pet or by
\* the UPDATE of an adopt request whose Adoption row for that pet is stored
\* with it.
C5_StatusOnlyForward ==
  [][/\ \A id \in 1..(MaxPets + NumSlots) :
          AdoptedIn(committed, id) => AdoptedIn(committed', id)
     /\ \A p \in committed'.pets :
          (p.status = "adopted" /\ ~AdoptedIn(committed, p.id)) =>
             \/ p.by = 0
             \/ \E a \in committed'.adoptions :
                  a.id = p.by /\ a.pet_id = p.id]_vars

\* C6: GET /api/pets answers with exactly the pets whose status is
\* 'available' at the time of the query, in ascending id order, none of them
\* 'adopted'; it answers an error only when the query itself failed, so with
\* no available pet the answer is the empty sequence.
C6_ListAvailableExact ==
  \A r \in Slots :
    Answered(r, "listAvailable") =>
      LET rows == req[r].resp.rows
      IN /\ (dbDefined /\ ~req[r].err) <=> req[r].resp.status = 200
         /\ req[r].resp.status \in {200, 500}
         /\ req[r].resp.status = 200 =>
              /\ {rows[i] : i \in 1..Len(rows)} =
                   {p \in session.pets : p.status = "available"}
              /\ \A i, j \in 1..Len(rows) : i < j => rows[i].id < rows[j].id
              /\ \A i \in 1..Len(rows) : rows[i].status # "adopted"

\* C6 happens: a list is answered that leaves out an adopted pet and
\* contains an available one.
C6_Witness ==
  \E r \in Slots :
    /\ Answered(r, "listAvailable")
    /\ req[r].resp.status = 200
    /\ req[r].resp.rows # <<>>
    /\ \E p \in session.pets : p.status = "adopted"

\* C7: an adopt request with a missing or empty field, or with a pet_id that
\* is not a positive integer, is answered 400 and issues no db call (stated
\* for a server that has its db handle).
C7_InvalidAdoptRejected ==
  \A r \in Slots :
    (/\ req[r].kind = "adopt"
     /\ dbDefined
     /\ \/ Missing(req[r].body.pet_id) \/ Missing(req[r].body.adopter_name)
        \/ Missing(req[r].body.email) \/ Missing(req[r].body.phone)
        \/ Missing(req[r].body.address)
        \/ ~IsPositiveInteger(req[r].body.pet_id)) =>
      /\ ~req[r].touched
      /\ req[r].pc = "done" => req[r].resp.status = 400

\* C8: GET /api/pets/:id with an id that is not a positive integer is
\* answered 400 and issues no db call (stated for a server that has its db
\* handle).
C8_InvalidIdRejected ==
  \A r \in Slots :
    (/\ req[r].kind = "getById"
     /\ dbDefined
     /\ ~IsPositiveInteger(req[r].body.id)) =>
      /\ ~req[r].touched
      /\ req[r].pc = "done" => req[r].resp.status = 400

\* C9: the UPDATE of an adopt-pet request whose (valid, positive) pet id
\* matches no pet leaves the tables, the transaction state and the id
\* counters as they were, and the request is answered 404 (500 when the
\* driver reported an error).
C9_MarkAdoptedMissingPet ==
  [][\A r \in Slots :
       (/\ AtHead(r, "adoptPet", "query")
        /\ IsPositiveInteger(req[r].body.pet_id)
        /\ PetIn(session, req[r].petIdNum) = {}
        /\ req'[r].pc = "done") =>
         /\ store' = store
         /\ req'[r].resp.status = IF req'[r].err THEN 500 ELSE 404]_vars

\* C9 happens: an adopt-pet request for a valid id is answered 404.
C9_Witness ==
  \E r \in Slots :
    /\ Answered(r, "adoptPet")
    /\ IsPositiveInteger(req[r].body.pet_id)
    /\ req[r].resp.status = 404
    /\ PetIn(session, req[r].petIdNum) = {}

\* C10: with a db handle, an add-pet request whose name or breed is empty or
\* whose age is missing, not a number or negative is answered 400 and issues
\* no db call.
C10_InvalidPetRejected ==
  \A r \in Slots :
    (/\ req[r].kind = "addPet"
     /\ dbDefined
     /\ \/ Missing(req[r].body.name) \/ Missing(req[r].body.breed)
        \/ Missing(req[r].body.age) \/ ~IsNumeric(req[r].body.age)
        \/ IsNegative(req[r].body.age)) =>
      /\ ~req[r].touched
      /\ req[r].pc = "done" => req[r].resp.status = 400

\* the decimal numeral of a one-digit number, as it stands in a URL or in
\* the JSON of a response
IdChars(n) == <<CHOOSE c \in Digits : DigitVal(c) = n>>

\* C11: when an add-pet request is answered with success and id i, the row
\* that GET /api/pets/i selects is one pet with status 'available' whose
\* name, breed, age, description and image_url have the text that was
\* submitted.
C11_InsertRoundTrip ==
  \A r \in Slots :
    (Answered(r, "addPet") /\ req[r].resp.status = 200) =>
      LET got == SelectPetById(session, IdChars(req[r].resp.id))
          b == req[r].body
      IN /\ Len(got) = 1
         /\ got[1].status = "available"
         /\ got[1].name.s = b.name.s
         /\ got[1].breed.s = b.breed.s
         /\ IdChars(got[1].age) = b.age.s
         /\ got[1].description.s = b.description.s
         /\ got[1].image_url.s = b.image_url.s

\* C12: a response to a request whose db callback got an err never carries
\* the driver's error text.
C12_NoDriverErrorLeak ==
  \A r \in Slots :
    (req[r].pc = "done" /\ req[r].err) => ~req[r].resp.leak

C14_ListAdoptedExact ==
  \A r \in Slots :
    (Answered(r, "listAdopted") /\ dbDefined /\ ~req[r].err) =>
      LET rows == req[r].resp.rows
      IN /\ req[r].resp.status = 200
         /\ Len(rows) = Cardinality(session.adoptions)
         /\ \A a \in session.adoptions :
              \E i \in 1..Len(rows) : rows[i].adoption_id = a.id
         /\ \A i \in 1..Len(rows) :
              \E a \in session.adoptions, q \in session.pets :
                /\ a.id = rows[i].adoption_id
                /\ q.id = a.pet_id
                /\ rows[i].adopter_name = a.adopter_name
                /\ rows[i].email = a.email
                /\ rows[i].phone = a.phone
                /\ rows[i].address = a.address
                /\ rows[i].adoption_date = a.adoption_date
                /\ rows[i].pet_id = q.id
                /\ rows[i].pet_name = q.name
                /\ rows[i].breed = q.breed
                /\ rows[i].age = q.age
                /\ rows[i].description = q.description
         /\ \A i, j \in 1..Len(rows) :
              i < j => rows[i].adoption_date >= rows[j].adoption_date
         /\ session.adoptions = {} => rows = <<>>

\* C14 happens: the list was answered with two adoptions of different dates.
C14_Witness ==
  \E r \in Slots :
    /\ Answered(r, "listAdopted")
    /\ req[r].resp.status = 200
    /\ Len(req[r].resp.rows) = 2
    /\ req[r].resp.rows[1].adoption_date > req[r].resp.rows[2].adoption_date

\* C15: when an adopt request for a pet that was stored as 'adopted' when
\* the request arrived is answered with success, the store holds an Adoption
\* row with the returned id for that pet and the pet's status is 'adopted'.
C15_ReadoptAddsRow ==
  \A r \in Slots :
    (Answered(r, "adopt") /\ req[r].resp.status = 200 /\ req[r].readopt) =>
      /\ \E a \in committed.adoptions :
           a.id = req[r].resp.id /\ a.pet_id = req[r].petIdNum
      /\ AdoptedIn(committed, req[r].petIdNum)

\* the request on slot r has a db command outstanding
Pending(rq) == rq.pc \notin {"idle", "done"}

\* how many commands of slot r are in the connection's queue
Queued(q, r) == Cardinality({i \in 1..Len(q) : q[i] = r})

\* the steps of the adopt chain: <<command executed, what the callback does
\* next, whether the callback got an err>>
AdoptChain ==
  {<<"begin", "insert", FALSE>>, <<"begin", "done", TRUE>>,
   <<"insert", "update", FALSE>>, <<"insert", "rollback", TRUE>>,
   <<"update", "commit", FALSE>>, <<"update", "rollback", TRUE>>,
   <<"commit", "done", FALSE>>, <<"commit", "rollback", TRUE>>}

\* C16: an adopt request has written exactly one response when it is done
\* and none before; it is done at once with 400 or 500 when validation
\* fails or the handler throws; otherwise each of its commands is executed
\* once, in the order begin, insert, update, commit, a command that fails is
\* followed only by the rollback (begin: by the answer), never by the same
\* or another command of the chain, and the answer is 500 after a failure
\* and 200 after the commit; it has one command in the queue while it is
\* not done, and no step of another request changes it.
C16_AdoptAnswersOnce ==
  [][\A r \in Slots :
       LET a == req[r]
           b == req'[r]
       IN /\ (~Pending(a) /\ last' = r /\ b.kind = "adopt") =>
               /\ b.pc \in {"begin", "done"}
               /\ ~b.err
               /\ b.pc = "done" => b.resp.status \in {400, 500}
          /\ (Pending(a) /\ a.kind = "adopt" /\ last' = r) =>
               /\ b.kind = "adopt" /\ b.body = a.body
               /\ ~a.err => <<a.pc, b.pc, b.err>> \in AdoptChain
               /\ a.err => a.pc = "rollback" /\ b.pc = "done" /\ b.err
               /\ b.pc = "done" =>
                    b.resp.status = IF b.err THEN 500 ELSE 200
          /\ (Pending(a) /\ a.kind = "adopt" /\ last' # r) => b = a
          /\ b.kind = "adopt" =>
               /\ b.sent = IF b.pc = "done" THEN 1 ELSE 0
               /\ Queued(queue', r) = IF Pending(b) THEN 1 ELSE 0]_vars

\* C16 happens: a commit failed, the rollback ran, and the request is
\* answered 500, once.
C16_Witness ==
  \E r \in Slots :
    /\ Answered(r, "adopt")
    /\ req[r].err
    /\ req[r].resp = ErrResp(500, "Failed to complete adoption")
    /\ req[r].sent = 1

\* a pet row as it is after UPDATE ... SET status = 'adopted': every column
\* but status as it was
SameButAdopted(p, q) ==
  /\ q.status = "adopted"
  /\ q.id = p.id /\ q.name = p.name /\ q.breed = p.breed /\ q.age = p.age
  /\ q.description = p.description /\ q.image_url = p.image_url

\* C17: when the UPDATE of an adopt-pet request for an existing pet runs
\* without a driver error, the adoption rows are unchanged (none created,
\* none altered), every other pet is unchanged, there is still one row for
\* the pet and it differs from the former one in its status alone, which is
\* 'adopted', no id counter moves, and the request is answered with success.
C17_MarkAdoptedFrame ==
  [][\A r \in Slots :
       (/\ AtHead(r, "adoptPet", "query")
        /\ PetIn(session, req[r].petIdNum) # {}
        /\ req'[r].pc = "done"
        /\ ~req'[r].err) =>
         LET id == req[r].petIdNum
         IN /\ session'.adoptions = session.adoptions
            /\ committed'.adoptions = committed.adoptions
            /\ {p \in session'.pets : p.id # id} = {p \in session.pets : p.id # id}
            /\ {p \in committed'.pets : p.id # id} =
                 {p \in committed.pets : p.id # id}
            /\ Cardinality(PetIn(session', id)) = 1
            /\ \A p \in PetIn(session, id), q \in PetIn(session', id) :
                 SameButAdopted(p, q)
            /\ \A p \in PetIn(committed, id), q \in PetIn(committed', id) :
                 q = p \/ SameButAdopted(p, q)
            /\ nextPetId' = nextPetId
            /\ nextAdoptionId' = nextAdoptionId
            /\ inTx' = inTx
            /\ req'[r].resp.status = 200]_vars

\* C17 happens: an adopt-pet request was answered with success while the
\* store holds a second pet and an adoption row, and the pet is 'adopted'.
C17_Witness ==
  \E r \in Slots :
    /\ Answered(r, "adoptPet")
    /\ req[r].resp.status = 200
    /\ AdoptedIn(session, req[r].petIdNum)
    /\ Cardinality(session.pets) = 2
    /\ session.adoptions # {}

\* C18: a pet that an add-pet request created (answered with its id in the
\* step that inserted it) and a status 'adopted' that an adopt-pet request
\* set (answered with success in the step that set it) are still there
\* after every step, the rollback of another request's adopt transaction
\* included.
C18_AnsweredWritesSurviveRollback ==
  [][\A p \in session.pets :
       /\ p.id > NumSamplePets => \E q \in session'.pets : q.id = p.id
       /\ (p.status = "adopted" /\ p.by = 0) => AdoptedIn(session', p.id)]_vars

====
